---------------------------- MODULE Spec2Model ----------------------------
(***************************************************************************)
(* A model of m3u_downloader.py: the playlist parser, the file-name        *)
(* sanitizer, the fetch worker (download_file), the coordinator            *)
(* (download_m3u) with its thread pool, and the worker-count validation of *)
(* main.                                                                   *)
(*                                                                         *)
(* A Python str is modelled as a sequence of one-character strings, so     *)
(* that strip, split, startswith, the regular expressions and slicing are  *)
(* computed character by character.                                        *)
(***************************************************************************)
EXTENDS Naturals, Integers, Sequences, FiniteSets, TLC

\* ------------------------------------------------------------------ bounds
\* The longest playlist (in entries) a run is given.
MaxEntries == 2
\* The number of download_m3u calls made on one downloader instance.
MaxRuns == 2
\* The longest playlist (in lines) the parser specification is given.
MaxLines == 3
MaxTitleLen == 3
MaxAnswerLen == 3
LiveRuns == 1

\* ------------------------------------------------------- program constants
\* sanitize_filename: "if len(filename) > 200: filename = filename[:200]".
NameLimit == 200
\* main: workers = int(workers) if workers else 4; except ValueError: 4.
DefaultWorkers == 4
\* main: workers = max(1, min(workers, 16)).
MinWorkers == 1
MaxWorkers == 16

\* ------------------------------------------------------------ str helpers
\* The whitespace str.strip() and the pattern \s recognise (of the
\* characters the model's alphabet holds).
Whitespace == {" ", "\t", "\n", "\r"}

\* The characters of the class [<>:"/\\|?*] of sanitize_filename.
Reserved == {"<", ">", ":", "\"", "/", "\\", "|", "?", "*"}

RECURSIVE LStrip(_)
\* str.lstrip(): s without its leading whitespace.
LStrip(s) ==
    IF s # <<>> /\ Head(s) \in Whitespace THEN LStrip(Tail(s)) ELSE s

RECURSIVE RStrip(_)
\* str.rstrip(): s without its trailing whitespace.
RStrip(s) ==
    IF s # <<>> /\ s[Len(s)] \in Whitespace
    THEN RStrip(SubSeq(s, 1, Len(s) - 1))
    ELSE s

\* str.strip().
Strip(s) == RStrip(LStrip(s))

\* str.startswith(p).
StartsWith(s, p) == Len(s) >= Len(p) /\ SubSeq(s, 1, Len(p)) = p

RECURSIVE SplitFrom(_, _, _)
\* The lines of s from position i on, cur being the line read so far.
SplitFrom(s, i, cur) ==
    IF i > Len(s) THEN <<cur>>
    ELSE IF s[i] = "\n" THEN <<cur>> \o SplitFrom(s, i + 1, <<>>)
    ELSE SplitFrom(s, i + 1, Append(cur, s[i]))

\* str.split('\n'): always at least one (possibly empty) line.
SplitLines(s) == SplitFrom(s, 1, <<>>)

\* ------------------------------------------------------------- parse_m3u
ExtInf == <<"#", "E", "X", "T", "I", "N", "F", ":">>

\* The positions of the commas of a line.
Commas(line) == {i \in 1..Len(line) : line[i] = ","}

\* The smallest element of a non-empty set of numbers.
Min(S) == CHOOSE m \in S : \A n \in S : m <= n

\* re.search(r'#EXTINF:[^,]*,(.+)', line) on a line that starts with
\* '#EXTINF:'.  At position 0, [^,]* runs to the first comma and cannot run
\* past it, so the pattern matches there exactly when the first comma is not
\* the last character; a later occurrence of '#EXTINF:' meets the same first
\* comma, so it matches nowhere else when it fails at 0.
TitleMatches(line) ==
    Commas(line) # {} /\ Min(Commas(line)) < Len(line)

TitleGroupLastComma(line) ==
    Strip(SubSeq(line, (CHOOSE m \in Commas(line) :
                            \A n \in Commas(line) : m >= n) + 1, Len(line)))

\* title_match.group(1).strip(): everything after the first comma, stripped.
TitleGroup(line) ==
    Strip(SubSeq(line, Min(Commas(line)) + 1, Len(line)))

\* current_title = None; None and '' are both falsy in "and current_title",
\* the only place the value is tested, and are both modelled as <<>>.
NoTitle == <<>>

ParseLineTitleBug(line, entries, cur) ==
    IF StartsWith(line, ExtInf)
    THEN <<entries, IF TitleMatches(line) THEN TitleGroup(line) ELSE NoTitle>>
    ELSE IF line # <<>> /\ ~StartsWith(line, <<"#">>) /\ cur # NoTitle
    THEN <<Append(entries, <<cur, line>>), NoTitle>>
    ELSE <<entries, cur>>

ParseLinePrepends(line, entries, cur) ==
    IF StartsWith(line, ExtInf)
    THEN <<entries, IF TitleMatches(line) THEN TitleGroup(line) ELSE cur>>
    ELSE IF line # <<>> /\ ~StartsWith(line, <<"#">>) /\ cur # NoTitle
    THEN <<(<<(<<cur, line>>)>>) \o entries, NoTitle>>
    ELSE <<entries, cur>>

\* One iteration of the loop of parse_m3u on a stripped line: the pair
\* <<entries, current_title>> after it.
ParseLine(line, entries, cur) ==
    IF StartsWith(line, ExtInf)
    THEN <<entries, IF TitleMatches(line) THEN TitleGroup(line) ELSE cur>>
    ELSE IF line # <<>> /\ ~StartsWith(line, <<"#">>) /\ cur # NoTitle
    THEN <<Append(entries, <<cur, line>>), NoTitle>>
    ELSE <<entries, cur>>

RECURSIVE ParseFrom(_, _, _, _)
\* The loop "for line in lines" from line i on.
ParseFrom(lines, i, entries, cur) ==
    IF i > Len(lines) THEN entries
    ELSE LET r == ParseLine(Strip(lines[i]), entries, cur)
         IN  ParseFrom(lines, i + 1, r[1], r[2])

\* parse_m3u(m3u_content): the list of (title, url) pairs.
parse_m3u(m3u_content) ==
    ParseFrom(SplitLines(Strip(m3u_content)), 1, <<>>, NoTitle)

\* ------------------------------------------------------ sanitize_filename
\* re.sub(r'[<>:"/\\|?*]', '_', filename).
ReplaceReserved(s) ==
    [i \in 1..Len(s) |-> IF s[i] \in Reserved THEN "_" ELSE s[i]]

\* re.sub(r'\s+', '_', filename): each maximal run of whitespace becomes
\* one '_'.  A whitespace character that follows another one is dropped,
\* every other whitespace character (the first of its run) becomes '_'.
CollapseWhitespace(s) ==
    LET marked == [i \in 1..Len(s) |->
                      <<s[i], s[i] \in Whitespace,
                        i > 1 /\ s[i - 1] \in Whitespace>>]
        kept == SelectSeq(marked, LAMBDA m : ~(m[2] /\ m[3]))
    IN  [i \in 1..Len(kept) |-> IF kept[i][2] THEN "_" ELSE kept[i][1]]

TruncateOffByOne(s) ==
    IF Len(s) > NameLimit + 1 THEN SubSeq(s, 1, NameLimit) ELSE s

\* filename[:200] when len(filename) > 200.
Truncate(s) == IF Len(s) > NameLimit THEN SubSeq(s, 1, NameLimit) ELSE s

sanitize_filename(filename) ==
    Truncate(CollapseWhitespace(ReplaceReserved(filename)))


\* ------------------------------------------------------------------ main
DigitChars == <<"0", "1", "2", "3", "4", "5", "6", "7", "8", "9">>

IsDigit(c) == \E d \in 1..10 : DigitChars[d] = c

DigitVal(c) == (CHOOSE d \in 1..10 : DigitChars[d] = c) - 1

\* The digits of s after an optional sign.
Unsigned(s) == IF s # <<>> /\ Head(s) \in {"+", "-"} THEN Tail(s) ELSE s

\* Whether int(s) returns (rather than raising ValueError): an optional
\* sign and at least one decimal digit, with single underscores allowed
\* between digits.
IsIntLiteral(s) ==
    LET u == Unsigned(s)
    IN  /\ u # <<>>
        /\ \A i \in 1..Len(u) :
               \/ IsDigit(u[i])
               \/ /\ u[i] = "_"
                  /\ 1 < i /\ i < Len(u)
                  /\ IsDigit(u[i - 1]) /\ IsDigit(u[i + 1])

RECURSIVE NatValue(_)
NatValue(digits) ==
    IF digits = <<>> THEN 0
    ELSE 10 * NatValue(SubSeq(digits, 1, Len(digits) - 1))
         + DigitVal(digits[Len(digits)])

\* int(s) for a literal s: the underscores do not count.
IntValue(s) ==
    LET digits == SelectSeq(Unsigned(s), IsDigit)
    IN  IF Head(s) = "-" THEN 0 - NatValue(digits) ELSE NatValue(digits)

Max2(a, b) == IF a >= b THEN a ELSE b
Min2(a, b) == IF a <= b THEN a ELSE b

main_workers_unclamped(answer) ==
    LET workers == Strip(answer)
    IN  IF workers = <<>> THEN DefaultWorkers
        ELSE IF ~IsIntLiteral(workers) THEN DefaultWorkers
        ELSE Min2(IntValue(workers), MaxWorkers)

\* main: the worker count computed from the operator's answer to
\* "Liczba watkow (domyslnie 4): ".
main_workers(answer) ==
    LET workers == Strip(answer)
    IN  IF workers = <<>> THEN DefaultWorkers
        ELSE IF ~IsIntLiteral(workers) THEN DefaultWorkers
        ELSE Max2(MinWorkers, Min2(IntValue(workers), MaxWorkers))

\* ----------------------------------------------------------------- inputs
\* The titles of the playlists given to a run: the first two differ and
\* sanitize to the same file name.
Titles == {<<"a", " ", "b">>, <<"a", "_", "b">>, <<"c">>}

\* The URL of every entry of those playlists.
Url == <<"h", ":", "u">>

RECURSIVE PlaylistBody(_)
\* The #EXTINF/URL line pairs of a playlist with the given titles.
PlaylistBody(titles) ==
    IF titles = <<>> THEN <<>>
    ELSE ExtInf \o <<"1", ",">> \o Head(titles) \o <<"\n">> \o Url \o <<"\n">>
         \o PlaylistBody(Tail(titles))

\* The text of a playlist file: the #EXTM3U header and the line pairs.
PlaylistText(titles) ==
    <<"#", "E", "X", "T", "M", "3", "U", "\n">> \o PlaylistBody(titles)

\* The playlist files a run may be given: up to MaxEntries entries.
RunContents ==
    {PlaylistText(ts) : ts \in UNION {[1..n -> Titles] : n \in 0..MaxEntries}}

\* The operator's answers to the worker-count prompt.
WorkerAnswers == {<<"0">>, <<"2">>}

\* ----------------------------------------------------------------- state
VARIABLES
    max_workers,   \* self.max_workers
    downloaded,    \* self.downloaded
    total,         \* self.total
    lock,          \* self.lock: 0 when free, else the task whose worker holds it
    m3u_content,   \* download_m3u: the text read from the playlist file
    entries,       \* download_m3u: parse_m3u(m3u_content)
    cpc,           \* the position of the thread that calls download_m3u
    runs,          \* the number of download_m3u calls started on the instance
    submitted,     \* the number of entries passed to executor.submit
    pc,            \* per task: the position of its download_file invocation
    outcome,       \* per task: how its download_file invocation ended
    tmp,           \* per task: the value of self.downloaded read by "+= 1"
    files,         \* the output directory: the state of each file path
    requested,     \* per task: whether it has called session.get
    opened,        \* per task: whether it has opened its target for writing
    collected,     \* the futures as_completed has yielded
    progress,      \* the (downloaded, total) pairs of the progress lines printed
    prev_content,  \* the playlist text of the previous call on the instance
    prev_outcome,  \* the outcomes of the tasks of the previous call
    workers_answer, \* main: the operator's answer to the worker-count prompt
    entry_title,   \* download_file: the title of the entry it is given
    safe_title     \* download_file: sanitize_filename(title), line 56

vars ==
    <<max_workers, downloaded, total, lock, m3u_content, entries, cpc, runs,
      submitted, pc, outcome, tmp, files, requested, opened, collected,
      progress, prev_content, prev_outcome, workers_answer, entry_title, safe_title>>

Tasks == 1..MaxEntries

\* The tasks of the current call: one per parsed entry.
ActiveTasks == 1..Len(entries)

Mp3 == <<".", "m", "p", "3">>

\* download_file, lines 56-58: the file name of a title (the output
\* directory is the same for every task).
FileName(title) == sanitize_filename(title) \o Mp3

FileNames == {FileName(t) : t \in Titles}

\* The target path of task t.
Target(t) == FileName(entries[t][1])

\* The positions at which a download_file invocation has started and not
\* returned.
RunningPcs ==
    {"check", "get", "open", "write", "write_mixed", "lock_exists",
     "store_exists", "lock_ok", "store_ok"}

Running == {t \in ActiveTasks : pc[t] \in RunningPcs}

FailedOutcomes == {"failed_request", "failed_fs", "failed_interrupted"}

Failed == {t \in ActiveTasks : outcome[t] \in FailedOutcomes}

\* No call has been made yet; no file of the output directory is being
\* written.
Init ==
    /\ workers_answer \in WorkerAnswers
    /\ max_workers = main_workers(workers_answer)
    /\ entry_title = <<>>
    /\ safe_title = <<>>
    /\ downloaded = 0
    /\ total = 0
    /\ lock = 0
    /\ m3u_content = <<>>
    /\ entries = <<>>
    /\ cpc = "idle"
    /\ runs = 0
    /\ submitted = 0
    /\ pc = [t \in Tasks |-> "none"]
    /\ outcome = [t \in Tasks |-> "none"]
    /\ tmp = [t \in Tasks |-> 0]
    /\ files \in [FileNames -> {"absent", "old"}]
    /\ requested = [t \in Tasks |-> FALSE]
    /\ opened = [t \in Tasks |-> FALSE]
    /\ collected = {}
    /\ progress = <<>>
    /\ prev_content = <<>>
    /\ prev_outcome = <<>>

\* ---------------------------------------------------------- download_m3u
\* A call of download_m3u on the playlist file whose text is content: read
\* the file and parse it; with no entries, print and return (lines 109-111).
\* The futures, the pool and the progress lines are the call's own.
StartRun(content) ==
    /\ cpc = "idle"
    /\ runs < MaxRuns
    /\ runs' = runs + 1
    /\ m3u_content' = content
    /\ entries' = parse_m3u(content)
    /\ cpc' = IF entries' = <<>> THEN "idle" ELSE "set_total"
    /\ prev_content' = m3u_content
    /\ prev_outcome' = [t \in ActiveTasks |-> outcome[t]]
    /\ submitted' = 0
    /\ pc' = [t \in Tasks |-> "none"]
    /\ outcome' = [t \in Tasks |-> "none"]
    /\ tmp' = [t \in Tasks |-> 0]
    /\ requested' = [t \in Tasks |-> FALSE]
    /\ opened' = [t \in Tasks |-> FALSE]
    /\ collected' = {}
    /\ progress' = <<>>
    /\ UNCHANGED <<max_workers, downloaded, total, lock, files,
                   workers_answer, entry_title, safe_title>>

\* Line 113: self.total = len(entries).
SetTotal ==
    /\ cpc = "set_total"
    /\ total' = Len(entries)
    /\ cpc' = "set_downloaded"
    /\ UNCHANGED <<max_workers, downloaded, lock, m3u_content, entries, runs,
                   submitted, pc, outcome, tmp, files, requested, opened,
                   collected, progress, prev_content, prev_outcome,
                   workers_answer, entry_title, safe_title>>

DownloadedKept == downloaded

\* Line 114: the value self.downloaded is set to.
DownloadedAtStart == 0

\* Line 114: self.downloaded = 0; then the pool is created (line 124).
SetDownloaded ==
    /\ cpc = "set_downloaded"
    /\ downloaded' = DownloadedAtStart
    /\ cpc' = "submit"
    /\ UNCHANGED <<max_workers, total, lock, m3u_content, entries, runs,
                   submitted, pc, outcome, tmp, files, requested, opened,
                   collected, progress, prev_content, prev_outcome,
                   workers_answer, entry_title, safe_title>>

SubmitSkipsDuplicates ==
    /\ cpc = "submit"
    /\ submitted < Len(entries)
    /\ submitted' = submitted + 1
    /\ pc' = IF \E i \in 1..submitted : entries[i] = entries[submitted + 1]
             THEN pc
             ELSE [pc EXCEPT ![submitted + 1] = "queued"]
    /\ cpc' = IF submitted + 1 = Len(entries) THEN "collect" ELSE "submit"
    /\ UNCHANGED <<max_workers, downloaded, total, lock, m3u_content, entries,
                   runs, outcome, tmp, files, requested, opened, collected,
                   progress, prev_content, prev_outcome,
                   workers_answer, entry_title, safe_title>>

\* Lines 126-129: executor.submit for the next entry; after the last one
\* the caller waits in as_completed.
Submit ==
    /\ cpc = "submit"
    /\ submitted < Len(entries)
    /\ submitted' = submitted + 1
    /\ pc' = [pc EXCEPT ![submitted + 1] = "queued"]
    /\ cpc' = IF submitted + 1 = Len(entries) THEN "collect" ELSE "submit"
    /\ UNCHANGED <<max_workers, downloaded, total, lock, m3u_content, entries,
                   runs, outcome, tmp, files, requested, opened, collected,
                   progress, prev_content, prev_outcome,
                   workers_answer, entry_title, safe_title>>

CollectStale(t) ==
    /\ cpc = "collect"
    /\ pc[t] = "done"
    /\ t \notin collected
    /\ collected' = collected \cup {t}
    /\ progress' = Append(progress, <<Len(progress), total>>)
    /\ UNCHANGED <<max_workers, downloaded, total, lock, m3u_content, entries,
                   cpc, runs, submitted, pc, outcome, tmp, files, requested,
                   opened, prev_content, prev_outcome,
                   workers_answer, entry_title, safe_title>>

\* Lines 132-137: as_completed yields a finished future; future.result()
\* returns (download_file raises nothing) and the progress line is printed
\* from self.downloaded and self.total as they are then.
Collect(t) ==
    /\ cpc = "collect"
    /\ pc[t] = "done"
    /\ t \notin collected
    /\ collected' = collected \cup {t}
    /\ progress' = Append(progress, <<downloaded, total>>)
    /\ UNCHANGED <<max_workers, downloaded, total, lock, m3u_content, entries,
                   cpc, runs, submitted, pc, outcome, tmp, files, requested,
                   opened, prev_content, prev_outcome,
                   workers_answer, entry_title, safe_title>>

SomeCollected == collected # {}

\* Line 132: as_completed ends when it has yielded every future.
AllCollected == collected = ActiveTasks

\* Lines 132, 140: the loop ends and the "with" block shuts the pool down.
ExitPool ==
    /\ cpc = "collect"
    /\ AllCollected
    /\ cpc' = "summary"
    /\ UNCHANGED <<max_workers, downloaded, total, lock, m3u_content, entries,
                   runs, submitted, pc, outcome, tmp, files, requested, opened,
                   collected, progress, prev_content, prev_outcome,
                   workers_answer, entry_title, safe_title>>

\* Lines 141-149: the summary is printed from self.downloaded and
\* self.total, and download_m3u returns.
Return ==
    /\ cpc = "summary"
    /\ cpc' = "idle"
    /\ UNCHANGED <<max_workers, downloaded, total, lock, m3u_content, entries,
                   runs, submitted, pc, outcome, tmp, files, requested, opened,
                   collected, progress, prev_content, prev_outcome,
                   workers_answer, entry_title, safe_title>>

\* --------------------------------------------------------- download_file
Unlimited(t) == TRUE

\* ThreadPoolExecutor(max_workers=self.max_workers): a queued task starts
\* when fewer than max_workers invocations are running, in submission order.
CanStart(t) ==
    /\ Cardinality(Running) < max_workers
    /\ \A u \in ActiveTasks : u < t => pc[u] # "queued"

\* A worker thread takes task t and enters download_file (lines 56-58).
Start(t) ==
    /\ pc[t] = "queued"
    /\ CanStart(t)
    /\ pc' = [pc EXCEPT ![t] = "check"]
    /\ UNCHANGED <<max_workers, downloaded, total, lock, m3u_content, entries,
                   cpc, runs, submitted, outcome, tmp, files, requested,
                   opened, collected, progress, prev_content, prev_outcome,
                   workers_answer, entry_title, safe_title>>

NeverExists(t) == FALSE

ExistsComplete(t) == files[Target(t)] = "full"

\* Line 61: os.path.exists(filepath).
Exists(t) == files[Target(t)] # "absent"

\* Lines 61-62, 67: the existence check.
Check(t) ==
    /\ pc[t] = "check"
    /\ pc' = [pc EXCEPT ![t] = IF Exists(t) THEN "lock_exists" ELSE "get"]
    /\ UNCHANGED <<max_workers, downloaded, total, lock, m3u_content, entries,
                   cpc, runs, submitted, outcome, tmp, files, requested,
                   opened, collected, progress, prev_content, prev_outcome,
                   workers_answer, entry_title, safe_title>>

LockAndLoadNoWait(t) ==
    /\ pc[t] \in {"lock_exists", "lock_ok"}
    /\ lock' = t
    /\ tmp' = [tmp EXCEPT ![t] = downloaded]
    /\ pc' = [pc EXCEPT ![t] =
                 IF pc[t] = "lock_exists" THEN "store_exists" ELSE "store_ok"]
    /\ UNCHANGED <<max_workers, downloaded, total, m3u_content, entries, cpc,
                   runs, submitted, outcome, files, requested, opened,
                   collected, progress, prev_content, prev_outcome,
                   workers_answer, entry_title, safe_title>>

\* Lines 63-64 and 83-84: "with self.lock" is entered and "+= 1" reads
\* self.downloaded.
LockAndLoad(t) ==
    /\ pc[t] \in {"lock_exists", "lock_ok"}
    /\ lock = 0
    /\ lock' = t
    /\ tmp' = [tmp EXCEPT ![t] = downloaded]
    /\ pc' = [pc EXCEPT ![t] =
                 IF pc[t] = "lock_exists" THEN "store_exists" ELSE "store_ok"]
    /\ UNCHANGED <<max_workers, downloaded, total, m3u_content, entries, cpc,
                   runs, submitted, outcome, files, requested, opened,
                   collected, progress, prev_content, prev_outcome,
                   workers_answer, entry_title, safe_title>>

StoreAndUnlockSkipsExisting(t) ==
    /\ pc[t] \in {"store_exists", "store_ok"}
    /\ downloaded' = IF pc[t] = "store_exists" THEN tmp[t] ELSE tmp[t] + 1
    /\ lock' = 0
    /\ tmp' = [tmp EXCEPT ![t] = 0]
    /\ outcome' = [outcome EXCEPT ![t] =
                      IF pc[t] = "store_exists" THEN "exists" ELSE "success"]
    /\ pc' = [pc EXCEPT ![t] = "done"]
    /\ UNCHANGED <<max_workers, total, m3u_content, entries, cpc, runs,
                   submitted, files, requested, opened, collected, progress,
                   prev_content, prev_outcome,
                   workers_answer, entry_title, safe_title>>

StoreAndKeepLock(t) ==
    /\ pc[t] \in {"store_exists", "store_ok"}
    /\ downloaded' = tmp[t] + 1
    /\ tmp' = [tmp EXCEPT ![t] = 0]
    /\ outcome' = [outcome EXCEPT ![t] =
                      IF pc[t] = "store_exists" THEN "exists" ELSE "success"]
    /\ pc' = [pc EXCEPT ![t] = "done"]
    /\ UNCHANGED <<max_workers, total, lock, m3u_content, entries, cpc, runs,
                   submitted, files, requested, opened, collected, progress,
                   prev_content, prev_outcome,
                   workers_answer, entry_title, safe_title>>

\* Lines 64-65 and 84-86: "+= 1" stores, the lock is released and
\* download_file returns True.
StoreAndUnlock(t) ==
    /\ pc[t] \in {"store_exists", "store_ok"}
    /\ downloaded' = tmp[t] + 1
    /\ lock' = 0
    /\ tmp' = [tmp EXCEPT ![t] = 0]
    /\ outcome' = [outcome EXCEPT ![t] =
                      IF pc[t] = "store_exists" THEN "exists" ELSE "success"]
    /\ pc' = [pc EXCEPT ![t] = "done"]
    /\ UNCHANGED <<max_workers, total, m3u_content, entries, cpc, runs,
                   submitted, files, requested, opened, collected, progress,
                   prev_content, prev_outcome,
                   workers_answer, entry_title, safe_title>>

\* Lines 70-71: the GET returns a 2xx response.
GetOk(t) ==
    /\ pc[t] = "get"
    /\ requested' = [requested EXCEPT ![t] = TRUE]
    /\ pc' = [pc EXCEPT ![t] = "open"]
    /\ UNCHANGED <<max_workers, downloaded, total, lock, m3u_content, entries,
                   cpc, runs, submitted, outcome, tmp, files, opened,
                   collected, progress, prev_content, prev_outcome,
                   workers_answer, entry_title, safe_title>>

GetFailsCounted(t) ==
    /\ pc[t] = "get"
    /\ requested' = [requested EXCEPT ![t] = TRUE]
    /\ outcome' = [outcome EXCEPT ![t] = "failed_request"]
    /\ pc' = [pc EXCEPT ![t] = "done"]
    /\ downloaded' = downloaded + 1
    /\ UNCHANGED <<max_workers, total, lock, m3u_content, entries,
                   cpc, runs, submitted, tmp, files, opened, collected,
                   progress, prev_content, prev_outcome,
                   workers_answer, entry_title, safe_title>>

GetFailsLeavesFile(t) ==
    /\ pc[t] = "get"
    /\ requested' = [requested EXCEPT ![t] = TRUE]
    /\ outcome' = [outcome EXCEPT ![t] = "failed_request"]
    /\ pc' = [pc EXCEPT ![t] = "done"]
    /\ files' = [files EXCEPT ![Target(t)] = "partial"]
    /\ UNCHANGED <<max_workers, downloaded, total, lock, m3u_content, entries,
                   cpc, runs, submitted, tmp, opened, collected,
                   progress, prev_content, prev_outcome,
                   workers_answer, entry_title, safe_title>>

\* Lines 70-71, 88-90: the GET ends in a connection error, a timeout or a
\* non-2xx status (raise_for_status); the RequestException is caught and
\* download_file returns False.
GetFails(t) ==
    /\ pc[t] = "get"
    /\ requested' = [requested EXCEPT ![t] = TRUE]
    /\ outcome' = [outcome EXCEPT ![t] = "failed_request"]
    /\ pc' = [pc EXCEPT ![t] = "done"]
    /\ UNCHANGED <<max_workers, downloaded, total, lock, m3u_content, entries,
                   cpc, runs, submitted, tmp, files, opened, collected,
                   progress, prev_content, prev_outcome,
                   workers_answer, entry_title, safe_title>>

\* The tasks other than t that have the target of t open for writing.
OtherWriters(t) ==
    {u \in ActiveTasks \ {t} :
        pc[u] \in {"write", "write_mixed"} /\ Target(u) = Target(t)}

\* Lines 74-75: os.makedirs and open(filepath, 'wb') succeed: the file is
\* created or truncated.  With another writer on the same path the bytes on
\* disk are no longer those of one transfer.
OpenOk(t) ==
    /\ pc[t] = "open"
    /\ opened' = [opened EXCEPT ![t] = TRUE]
    /\ files' = [files EXCEPT ![Target(t)] = "partial"]
    /\ pc' = [u \in Tasks |->
                 IF u = t
                 THEN IF OtherWriters(t) = {} THEN "write" ELSE "write_mixed"
                 ELSE IF u \in OtherWriters(t) THEN "write_mixed" ELSE pc[u]]
    /\ UNCHANGED <<max_workers, downloaded, total, lock, m3u_content, entries,
                   cpc, runs, submitted, outcome, tmp, requested, collected,
                   progress, prev_content, prev_outcome,
                   workers_answer, entry_title, safe_title>>

\* Lines 74-75, 91-93: os.makedirs or open raises (OSError); download_file
\* returns False and no file was created.
OpenFails(t) ==
    /\ pc[t] = "open"
    /\ outcome' = [outcome EXCEPT ![t] = "failed_fs"]
    /\ pc' = [pc EXCEPT ![t] = "done"]
    /\ UNCHANGED <<max_workers, downloaded, total, lock, m3u_content, entries,
                   cpc, runs, submitted, tmp, files, requested, opened,
                   collected, progress, prev_content, prev_outcome,
                   workers_answer, entry_title, safe_title>>

\* Lines 76-81: every chunk is written, the file is closed and its size
\* read.
WriteDone(t) ==
    /\ pc[t] \in {"write", "write_mixed"}
    /\ files' = [files EXCEPT ![Target(t)] =
                    IF pc[t] = "write" THEN "full" ELSE "mixed"]
    /\ pc' = [pc EXCEPT ![t] = "lock_ok"]
    /\ UNCHANGED <<max_workers, downloaded, total, lock, m3u_content, entries,
                   cpc, runs, submitted, outcome, tmp, requested, opened,
                   collected, progress, prev_content, prev_outcome,
                   workers_answer, entry_title, safe_title>>

WriteInterruptedCleans(t) ==
    /\ pc[t] \in {"write", "write_mixed"}
    /\ outcome' = [outcome EXCEPT ![t] = "failed_interrupted"]
    /\ pc' = [pc EXCEPT ![t] = "done"]
    /\ files' = [files EXCEPT ![Target(t)] = "absent"]
    /\ UNCHANGED <<max_workers, downloaded, total, lock, m3u_content, entries,
                   cpc, runs, submitted, tmp, requested, opened,
                   collected, progress, prev_content, prev_outcome,
                   workers_answer, entry_title, safe_title>>

\* Lines 76-78, 88-93: iter_content or f.write raises in mid-transfer; the
\* file is closed as it is and download_file returns False.
WriteInterrupted(t) ==
    /\ pc[t] \in {"write", "write_mixed"}
    /\ outcome' = [outcome EXCEPT ![t] = "failed_interrupted"]
    /\ pc' = [pc EXCEPT ![t] = "done"]
    /\ UNCHANGED <<max_workers, downloaded, total, lock, m3u_content, entries,
                   cpc, runs, submitted, tmp, files, requested, opened,
                   collected, progress, prev_content, prev_outcome,
                   workers_answer, entry_title, safe_title>>

\* ---------------------------------------------------------- specification
Next ==
    \/ \E content \in RunContents : StartRun(content)
    \/ SetTotal
    \/ SetDownloaded
    \/ Submit
    \/ \E t \in ActiveTasks : Collect(t)
    \/ ExitPool
    \/ Return
    \/ \E t \in ActiveTasks : Start(t)
    \/ \E t \in ActiveTasks : Check(t)
    \/ \E t \in ActiveTasks : LockAndLoad(t)
    \/ \E t \in ActiveTasks : StoreAndUnlock(t)
    \/ \E t \in ActiveTasks : GetOk(t)
    \/ \E t \in ActiveTasks : GetFails(t)
    \/ \E t \in ActiveTasks : OpenOk(t)
    \/ \E t \in ActiveTasks : OpenFails(t)
    \/ \E t \in ActiveTasks : WriteDone(t)
    \/ \E t \in ActiveTasks : WriteInterrupted(t)

Spec == Init /\ [][Next]_vars

\* ------------------------------------------------------------ properties
\* download_m3u has returned or is printing its summary.
RunEnded == cpc = "summary" \/ (cpc = "idle" /\ runs > 0)

\* Lines 113-114 have both been executed in the current call.
CountersSet == cpc \in {"submit", "collect", "summary"}

\* The tasks whose download_file invocation returned True.
Succeeded == {t \in ActiveTasks : outcome[t] \in {"success", "exists"}}

\* The tasks of the current call with the same target path as t.
SameTarget(t) == {u \in ActiveTasks : Target(u) = Target(t)}

\* C1 as stated: when a run over N entries ends, N outcomes were observed
\* and completed (self.downloaded) = N = total (self.total), whatever the
\* per-entry results.
C1_AsStated ==
    RunEnded =>
        /\ Cardinality(collected) = Len(entries)
        /\ downloaded = Len(entries)
        /\ total = Len(entries)

\* C1 amended: when a run over N entries ends, exactly N outcomes were
\* observed, and for N >= 1 total = N and completed = N minus the number of
\* tasks that failed.
C1_Aggregate ==
    RunEnded =>
        /\ Cardinality(collected) = Len(entries)
        /\ Len(entries) >= 1 =>
              /\ total = Len(entries)
              /\ downloaded = Len(entries) - Cardinality(Failed)

\* A two-entry run has ended with one task failed and one counted.
C1_Witness ==
    /\ cpc = "summary"
    /\ Len(entries) = 2
    /\ Cardinality(Failed) = 1
    /\ downloaded = 1

\* C2 failure isolation: when the run's summary is produced, every task
\* outside the set F of failed tasks has ended as success or already-exists
\* and was collected, every failed task was collected too, and the succeeded
\* count the summary reports (self.downloaded) is N - |F|.
C2_FailureIsolation ==
    cpc = "summary" =>
        /\ \A t \in ActiveTasks \ Failed :
              pc[t] = "done" /\ outcome[t] \in {"success", "exists"}
        /\ \A t \in ActiveTasks : t \in collected
        /\ downloaded = Len(entries) - Cardinality(Failed)
        /\ downloaded = Cardinality(Succeeded)

\* The first task's request failed, the second task downloaded its file.
C2_Witness ==
    /\ cpc = "summary"
    /\ Len(entries) = 2
    /\ outcome[1] = "failed_request"
    /\ outcome[2] = "success"

\* C3 concurrency bound: the download_file invocations that have started
\* and not returned are never more than max_workers, and a task that has
\* not started is still queued.
C3_ConcurrencyBound ==
    /\ Cardinality(Running) <= max_workers
    /\ \A t \in ActiveTasks :
          t <= submitted /\ t \notin Running /\ pc[t] # "done"
              => pc[t] = "queued"

\* With one worker, one task is running while the other waits in the queue.
C3_Witness ==
    /\ max_workers = 1
    /\ \E t \in ActiveTasks : pc[t] = "get"
    /\ \E t \in ActiveTasks : pc[t] = "queued"

\* C4 skip-existing: a download_file invocation that finds its target path
\* existing at the existence check takes the already-exists path; no step of
\* that path issues a request or changes any file, it ends with the
\* already-exists outcome, and an invocation that ended so has neither
\* requested nor opened anything.
C4_SkipExisting ==
    /\ [](\A t \in ActiveTasks :
            outcome[t] = "exists" => ~requested[t] /\ ~opened[t])
    /\ [][\A t \in ActiveTasks :
            /\ (pc[t] = "check" /\ files[Target(t)] # "absent"
                    /\ pc'[t] # "check")
                  => pc'[t] = "lock_exists"
                     /\ files' = files /\ requested' = requested
            /\ (pc[t] \in {"lock_exists", "store_exists"} /\ pc'[t] # pc[t])
                  => /\ files' = files
                     /\ requested' = requested
                     /\ pc'[t] \in {"store_exists", "done"}
                     /\ pc'[t] = "done" => outcome'[t] = "exists"]_vars

\* A task returned already-exists for a file that was there before the
\* first run, and the file is as it was.
C4_Witness ==
    \E t \in ActiveTasks :
        /\ outcome[t] = "exists"
        /\ files[Target(t)] = "old"
        /\ \A u \in SameTarget(t) : pc[u] = "done"

\* C5 join barrier: when download_m3u prints its summary and when it has
\* returned, every submitted task has a terminal outcome: none is queued,
\* fetching, writing or holding the lock.
C5_JoinBarrier ==
    RunEnded =>
        /\ submitted = Len(entries)
        /\ \A t \in ActiveTasks :
              /\ pc[t] = "done"
              /\ outcome[t] \in {"success", "exists"} \cup FailedOutcomes
        /\ lock = 0

\* A two-entry run returns after one task succeeded and one was interrupted.
C5_Witness ==
    /\ cpc = "summary"
    /\ Len(entries) = 2
    /\ outcome[1] = "failed_interrupted"
    /\ outcome[2] = "success"

\* C6 counter invariant: once lines 113-114 have set the counters of a run,
\* and until the run ends, completed <= total, and completed does not
\* decrease from a state to the next; so also in a second run on an instance
\* whose earlier run had more entries.
C6_CounterInvariant ==
    /\ [](CountersSet => downloaded <= total)
    /\ [][CountersSet /\ CountersSet' => downloaded' >= downloaded]_vars

\* A one-entry run ends on an instance whose previous run counted two.
C6_Witness ==
    /\ runs = 2
    /\ cpc = "summary"
    /\ Len(entries) = 1
    /\ Len(prev_outcome) = 2
    /\ \A i \in 1..2 : prev_outcome[i] \in {"success", "exists"}
    /\ downloaded = 1

\* C7 as stated: after a run over an empty entry list, no worker was
\* started, no request was made, and completed = total = 0, also on an
\* instance that completed a non-empty run before.
C7_EmptyRun ==
    (cpc = "idle" /\ runs > 0 /\ entries = <<>>) =>
        /\ \A t \in Tasks : pc[t] = "none" /\ ~requested[t]
        /\ downloaded = 0
        /\ total = 0

\* C8 failed fetch: the step in which the GET of a task fails ends the task
\* as failed and changes no file and neither counter, and a task that ended
\* so never opened its target.
C8_FailedFetch ==
    /\ [](\A t \in ActiveTasks :
            outcome[t] = "failed_request"
                => pc[t] = "done" /\ requested[t] /\ ~opened[t])
    /\ [][\A t \in ActiveTasks :
            (pc[t] = "get" /\ pc'[t] = "done")
                => /\ outcome'[t] = "failed_request"
                   /\ files' = files
                   /\ downloaded' = downloaded
                   /\ total' = total]_vars

\* A request failed, its target does not exist, and a sibling was counted.
C8_Witness ==
    /\ cpc = "summary"
    /\ \E t \in ActiveTasks :
          outcome[t] = "failed_request" /\ files[Target(t)] = "absent"
    /\ downloaded = 1

\* C9 partial file is later skipped: a task interrupted after it opened its
\* target ends failed and uncounted and the file stays (incomplete when no
\* other task of the run wrote to the same path); no file ever disappears;
\* and in the next run over the same playlist that entry makes no request
\* and, when the run ends, has returned already-exists and is counted.
C9_PartialSkipped ==
    /\ [](\A t \in ActiveTasks :
            outcome[t] = "failed_interrupted" =>
                /\ opened[t]
                /\ t \notin Succeeded
                /\ files[Target(t)] # "absent"
                /\ SameTarget(t) = {t} => files[Target(t)] = "partial")
    /\ [](CountersSet => (lock = 0 => downloaded = Cardinality(Succeeded)))
    /\ [](\A t \in ActiveTasks :
            (/\ runs >= 2
             /\ m3u_content = prev_content
             /\ prev_outcome[t] = "failed_interrupted")
                => /\ ~requested[t]
                   /\ ~opened[t]
                   /\ outcome[t] \in {"none", "exists"}
                   /\ RunEnded => outcome[t] = "exists" /\ t \in Succeeded)
    /\ [][\A f \in FileNames :
            files[f] # "absent" => files'[f] # "absent"]_vars

\* The second run over the same playlist skipped the entry whose transfer
\* the first run left incomplete.
C9_Witness ==
    /\ runs = 2
    /\ cpc = "summary"
    /\ m3u_content = prev_content
    /\ \E t \in ActiveTasks :
          /\ prev_outcome[t] = "failed_interrupted"
          /\ outcome[t] = "exists"
          /\ files[Target(t)] = "partial"

\* ------------------------------------------------- parse_m3u on its own
\* The lines the parser is given: blank, comment, title lines (one with
\* surrounding blanks, one with a comma in its title), #EXTINF lines that
\* hold no title (no comma; nothing after the comma), and URL lines.
ParseLineSet ==
    { <<>>,
      <<"#", "x">>,
      ExtInf \o <<"1", ",", "A">>,
      <<" ">> \o ExtInf \o <<"2", ",", " ", "B", " ">>,
      ExtInf \o <<"3", ",", "C", ",", "D">>,
      ExtInf \o <<"4">>,
      ExtInf \o <<"5", ",">>,
      <<"u">>,
      <<" ", "v">> }

RECURSIVE JoinLines(_)
\* The lines joined by '\n'.
JoinLines(ls) ==
    IF ls = <<>> THEN <<>>
    ELSE IF Len(ls) = 1 THEN ls[1]
    ELSE Head(ls) \o <<"\n">> \o JoinLines(Tail(ls))

\* The playlist texts of up to MaxLines lines.
ParseContents ==
    {JoinLines(ls) : ls \in UNION {[1..n -> ParseLineSet] : n \in 0..MaxLines}}

\* A downloader on which nothing has been called, and a playlist text.
InitParse ==
    /\ m3u_content \in ParseContents
    /\ workers_answer = <<>>
    /\ max_workers = main_workers(workers_answer)
    /\ entry_title = <<>>
    /\ safe_title = <<>>
    /\ downloaded = 0
    /\ total = 0
    /\ lock = 0
    /\ entries = <<>>
    /\ cpc = "idle"
    /\ runs = 0
    /\ submitted = 0
    /\ pc = [t \in Tasks |-> "none"]
    /\ outcome = [t \in Tasks |-> "none"]
    /\ tmp = [t \in Tasks |-> 0]
    /\ files = [f \in FileNames |-> "absent"]
    /\ requested = [t \in Tasks |-> FALSE]
    /\ opened = [t \in Tasks |-> FALSE]
    /\ collected = {}
    /\ progress = <<>>
    /\ prev_content = <<>>
    /\ prev_outcome = <<>>

\* A call of parse_m3u on the text.
ParseCall ==
    /\ cpc = "idle"
    /\ entries' = parse_m3u(m3u_content)
    /\ cpc' = "parsed"
    /\ UNCHANGED <<max_workers, downloaded, total, lock, m3u_content, runs,
                   submitted, pc, outcome, tmp, files, requested, opened,
                   collected, progress, prev_content, prev_outcome,
                   workers_answer, entry_title, safe_title>>

SpecParse == InitParse /\ [][ParseCall]_vars

\* The lines of a text as the loop of parse_m3u sees them.
StrippedLines(content) ==
    LET ls == SplitLines(Strip(content))
    IN  [i \in 1..Len(ls) |-> Strip(ls[i])]

\* A title line: an #EXTINF line with a comma that is not its last character.
IsTitleLine(l) ==
    StartsWith(l, ExtInf) /\ \E i \in 1..(Len(l) - 1) : l[i] = ","

\* A URL line: not blank and not starting with '#'.
IsUrlLine(l) == l # <<>> /\ l[1] # "#"

\* The title lines before line j that no URL line separates from it.
PendingTitles(ls, j) ==
    {i \in 1..(j - 1) :
        IsTitleLine(ls[i]) /\ \A k \in (i + 1)..(j - 1) : ~IsUrlLine(ls[k])}

\* The largest element of a non-empty set of numbers.
Max(S) == CHOOSE m \in S : \A n \in S : m >= n

RECURSIVE ExpectedFrom(_, _)
\* From line j on: one entry for each URL line with a pending title line,
\* pairing it with the last of them.
ExpectedFrom(ls, j) ==
    IF j > Len(ls) THEN <<>>
    ELSE IF IsUrlLine(ls[j]) /\ PendingTitles(ls, j) # {}
    THEN <<<<TitleGroup(ls[Max(PendingTitles(ls, j))]), ls[j]>>>>
         \o ExpectedFrom(ls, j + 1)
    ELSE ExpectedFrom(ls, j + 1)

\* C10 as stated: every entry parse_m3u emits is a URL line paired with a
\* title line before it, with no URL line and no other #EXTINF line between
\* the two (a title line followed by another #EXTINF line before any URL
\* line contributes nothing).
C10_AsStated ==
    cpc = "parsed" =>
        LET ls == StrippedLines(m3u_content)
        IN  \A n \in 1..Len(entries) :
                \E j \in 1..Len(ls) : \E i \in 1..(j - 1) :
                    /\ IsUrlLine(ls[j])
                    /\ ls[j] = entries[n][2]
                    /\ IsTitleLine(ls[i])
                    /\ TitleGroup(ls[i]) = entries[n][1]
                    /\ \A k \in (i + 1)..(j - 1) :
                          ~IsUrlLine(ls[k]) /\ ~StartsWith(ls[k], ExtInf)

\* C10 amended: parse_m3u emits exactly one entry for each URL line that
\* follows a title line (an #EXTINF line with text after its first comma)
\* with no URL line in between, pairing it with the last such title line: a
\* title line followed by another title line before any URL line, and a URL
\* line with no pending title, contribute nothing, while an #EXTINF line
\* that holds no title leaves the pending title in place.
C10_ParserTolerance ==
    cpc = "parsed" => entries = ExpectedFrom(StrippedLines(m3u_content), 1)

\* Two title lines and then a URL line: one entry, with the second title.
C10_Witness ==
    /\ cpc = "parsed"
    /\ LET ls == StrippedLines(m3u_content)
       IN  /\ Len(ls) = 3
           /\ IsTitleLine(ls[1])
           /\ IsTitleLine(ls[2])
           /\ TitleGroup(ls[1]) # TitleGroup(ls[2])
           /\ IsUrlLine(ls[3])
           /\ entries = <<<<TitleGroup(ls[2]), ls[3]>>>>


\* ------------------------------------------- well-formed playlists (C11)
\* Titles and URLs of well-formed entries: a title is not empty, holds no
\* line break and has no surrounding blanks (it may hold commas and inner
\* blanks); a URL is not empty, has no surrounding blanks and does not
\* start with '#'.
WellTitles == {<<"A">>, <<"C", ",", "D">>, <<"a", " ", "b">>}
WellUrls == {<<"u">>, <<"h", ":", "v">>}
WellPairs == {<<t, u>> : t \in WellTitles, u \in WellUrls}

\* The well-formed entry lists of up to MaxEntries entries.
WellLists == UNION {[1..n -> WellPairs] : n \in 0..MaxEntries}

\* The duration written on the i-th #EXTINF line.
Duration(i) == IF i % 2 = 1 THEN <<"1", "0">> ELSE <<"-", "1">>

RECURSIVE AlternatingFrom(_, _, _)
\* The lines '#EXTINF:<duration>,<title>' and '<url>' of the entries from
\* the i-th on, each followed by a blank line when blank is TRUE.
AlternatingFrom(pl, i, blank) ==
    IF i > Len(pl) THEN <<>>
    ELSE LET gap == IF blank THEN <<"\n">> ELSE <<>>
         IN  ExtInf \o Duration(i) \o <<",">> \o pl[i][1] \o <<"\n">> \o gap
             \o pl[i][2] \o <<"\n">> \o gap
             \o AlternatingFrom(pl, i + 1, blank)

\* The playlist text of the entries, with or without the '#EXTM3U' header
\* and with or without interleaved blank lines.
AlternatingText(pl, header, blank) ==
    (IF header THEN <<"#", "E", "X", "T", "M", "3", "U", "\n">> ELSE <<>>)
    \o (IF header /\ blank THEN <<"\n">> ELSE <<>>)
    \o AlternatingFrom(pl, 1, blank)

WellContents ==
    {AlternatingText(pl, h, b) : pl \in WellLists, h \in BOOLEAN, b \in BOOLEAN}

\* A downloader on which nothing has been called, and a well-formed
\* playlist text.
InitWell ==
    /\ m3u_content \in WellContents
    /\ workers_answer = <<>>
    /\ max_workers = main_workers(workers_answer)
    /\ entry_title = <<>>
    /\ safe_title = <<>>
    /\ downloaded = 0
    /\ total = 0
    /\ lock = 0
    /\ entries = <<>>
    /\ cpc = "idle"
    /\ runs = 0
    /\ submitted = 0
    /\ pc = [t \in Tasks |-> "none"]
    /\ outcome = [t \in Tasks |-> "none"]
    /\ tmp = [t \in Tasks |-> 0]
    /\ files = [f \in FileNames |-> "absent"]
    /\ requested = [t \in Tasks |-> FALSE]
    /\ opened = [t \in Tasks |-> FALSE]
    /\ collected = {}
    /\ progress = <<>>
    /\ prev_content = <<>>
    /\ prev_outcome = <<>>

SpecWell == InitWell /\ [][ParseCall]_vars

\* C11: for every playlist text made of k >= 0 alternating
\* '#EXTINF:<duration>,<title>' and URL lines, with or without the '#EXTM3U'
\* header and interleaved blank lines, parse_m3u returns exactly the k
\* (title, URL) pairs, in playlist order.
C11_ParserCorrectness ==
    cpc = "parsed" =>
        \A pl \in WellLists : \A h \in BOOLEAN, b \in BOOLEAN :
            m3u_content = AlternatingText(pl, h, b) => entries = pl

\* C11 witness: a text with the header and blank lines whose two different
\* entries (one title with a comma) have been returned in order.
C11_Witness ==
    /\ cpc = "parsed"
    /\ Len(entries) = 2
    /\ entries[1][1] = <<"C", ",", "D">>
    /\ entries[2][1] = <<"a", " ", "b">>
    /\ entries[1][2] # entries[2][2]
    /\ m3u_content = AlternatingText(entries, TRUE, TRUE)


\* ------------------------------------------------ sanitize_filename (C12)
\* The characters of the short titles: a plain character, two kinds of
\* whitespace, two reserved characters and the replacement character.
TitleChars == {"a", " ", "\t", "/", "?", "_"}

\* The titles of up to MaxTitleLen characters.
ShortTitles == UNION {[1..n -> TitleChars] : n \in 0..MaxTitleLen}

\* Prefixes that bring a title to the length limit: NameLimit - 1 plain
\* characters, and NameLimit - 1 characters alternating a plain character
\* and a blank.
LongPrefixes ==
    { [i \in 1..(NameLimit - 1) |-> "a"],
      [i \in 1..(NameLimit - 1) |-> IF i % 2 = 1 THEN "a" ELSE " "] }

\* The titles given to sanitize_filename.
SanitizeTitles ==
    ShortTitles \cup {p \o t : p \in LongPrefixes, t \in ShortTitles}

\* download_file has been given an entry with the title.
InitSanitize ==
    /\ entry_title \in SanitizeTitles
    /\ safe_title = <<>>
    /\ m3u_content = <<>>
    /\ workers_answer = <<>>
    /\ max_workers = main_workers(workers_answer)
    /\ downloaded = 0
    /\ total = 0
    /\ lock = 0
    /\ entries = <<>>
    /\ cpc = "idle"
    /\ runs = 0
    /\ submitted = 0
    /\ pc = [t \in Tasks |-> "none"]
    /\ outcome = [t \in Tasks |-> "none"]
    /\ tmp = [t \in Tasks |-> 0]
    /\ files = [f \in FileNames |-> "absent"]
    /\ requested = [t \in Tasks |-> FALSE]
    /\ opened = [t \in Tasks |-> FALSE]
    /\ collected = {}
    /\ progress = <<>>
    /\ prev_content = <<>>
    /\ prev_outcome = <<>>

\* download_file, line 56: safe_title = self.sanitize_filename(title).
SanitizeCall ==
    /\ cpc = "idle"
    /\ safe_title' = sanitize_filename(entry_title)
    /\ cpc' = "sanitized"
    /\ UNCHANGED <<max_workers, downloaded, total, lock, m3u_content, entries,
                   runs, submitted, pc, outcome, tmp, files, requested,
                   opened, collected, progress, prev_content, prev_outcome,
                   workers_answer, entry_title>>

SpecSanitize == InitSanitize /\ [][SanitizeCall]_vars

\* C12: sanitize_filename is idempotent, and its result holds no reserved
\* character, no whitespace, and at most 200 characters.
C12_SanitizerSafe ==
    cpc = "sanitized" =>
        /\ sanitize_filename(safe_title) = safe_title
        /\ \A i \in 1..Len(safe_title) :
               safe_title[i] \notin
                   {"<", ">", ":", "\"", "/", "\\", "|", "?", "*",
                    " ", "\t", "\n", "\r"}
        /\ Len(safe_title) <= 200

\* C12 witness: a title longer than the limit, with whitespace and a
\* reserved character, has been sanitized to exactly 200 characters.
C12_Witness ==
    /\ cpc = "sanitized"
    /\ Len(entry_title) > 200
    /\ \E i \in 1..Len(entry_title) : entry_title[i] = "\t"
    /\ \E i \in 1..Len(entry_title) : entry_title[i] = "/"
    /\ Len(safe_title) = 200
    /\ safe_title # SubSeq(entry_title, 1, 200)


\* ------------------------------------------------- the worker count (C13)
\* The characters of the operator's answers: signs, digits, the digit
\* separator, a letter, a blank and a decimal point.
AnswerChars == {"-", "+", "0", "1", "7", "9", "_", "x", " ", "."}

\* The answers of up to MaxAnswerLen characters.
MainAnswers == UNION {[1..n -> AnswerChars] : n \in 0..MaxAnswerLen}

\* main has read the operator's answer; no downloader exists yet
\* (max_workers = 0).
InitMain ==
    /\ workers_answer \in MainAnswers
    /\ max_workers = 0
    /\ cpc = "main"
    /\ entry_title = <<>>
    /\ safe_title = <<>>
    /\ m3u_content = <<>>
    /\ downloaded = 0
    /\ total = 0
    /\ lock = 0
    /\ entries = <<>>
    /\ runs = 0
    /\ submitted = 0
    /\ pc = [t \in Tasks |-> "none"]
    /\ outcome = [t \in Tasks |-> "none"]
    /\ tmp = [t \in Tasks |-> 0]
    /\ files = [f \in FileNames |-> "absent"]
    /\ requested = [t \in Tasks |-> FALSE]
    /\ opened = [t \in Tasks |-> FALSE]
    /\ collected = {}
    /\ progress = <<>>
    /\ prev_content = <<>>
    /\ prev_outcome = <<>>

\* main, lines 170-179: the worker count is computed from the answer and
\* the downloader is constructed with it.
MainCall ==
    /\ cpc = "main"
    /\ max_workers' = main_workers(workers_answer)
    /\ cpc' = "idle"
    /\ UNCHANGED <<downloaded, total, lock, m3u_content, entries,
                   runs, submitted, pc, outcome, tmp, files, requested,
                   opened, collected, progress, prev_content, prev_outcome,
                   workers_answer, entry_title, safe_title>>

SpecMain == InitMain /\ [][MainCall]_vars

\* C13: for every answer to the worker-count prompt the downloader is
\* constructed (main is not aborted) with a worker count in 1..16: 4 for an
\* empty or non-numeric answer, 1 for an integer below 1, 16 for an integer
\* above 16, and the integer itself otherwise.
C13_WorkerCount ==
    cpc = "idle" =>
        LET w == Strip(workers_answer)
        IN  /\ max_workers \in 1..16
            /\ (w = <<>> \/ ~IsIntLiteral(w)) => max_workers = 4
            /\ (w # <<>> /\ IsIntLiteral(w)) =>
                   /\ IntValue(w) < 1 => max_workers = 1
                   /\ IntValue(w) > 16 => max_workers = 16
                   /\ IntValue(w) \in 1..16 => max_workers = IntValue(w)

\* C13 witness: a negative answer has been raised to 1.
C13_Witness ==
    /\ cpc = "idle"
    /\ workers_answer = <<"-", "7">>
    /\ max_workers = 1


\* ---------------------------------------------- concurrency of the workers
\* The tasks that have the target file open for writing (lines 75-78).
Writing == {t \in ActiveTasks : pc[t] \in {"write", "write_mixed"}}

\* C14: when two entries of one run sanitize to the same file name, at most
\* one of the two workers issues the GET and writes the target file, and
\* the two never have the target file open for writing at the same time.
C14_SameTargetCollision ==
    \A t \in ActiveTasks : \A u \in SameTarget(t) \ {t} :
        /\ ~(requested[t] /\ requested[u])
        /\ ~(t \in Writing /\ u \in Writing)


\* The tasks inside "with self.lock" (lines 63-65 and 83-84).
InCritical == {t \in ActiveTasks : pc[t] \in {"store_exists", "store_ok"}}

\* The tasks whose download_file invocation has returned.
Returned == {t \in ActiveTasks : pc[t] = "done"}

\* C15: no lost updates.  At most one worker is inside "with self.lock", it
\* is the holder of the lock, and the holder is at the increment (not at a
\* request or a file operation); a worker's step changes self.downloaded
\* only as the holder's increment by one; once all workers have returned,
\* self.downloaded is the number of invocations that returned True.
C15_NoLostUpdates ==
    /\ [](Cardinality(InCritical) <= 1)
    /\ [](\A t \in InCritical : lock = t)
    /\ [](lock # 0 => lock \in InCritical)
    /\ [][(CountersSet /\ CountersSet' /\ downloaded' # downloaded) =>
             /\ lock \in InCritical
             /\ lock' = 0
             /\ pc'[lock] = "done"
             /\ downloaded' = downloaded + 1]_vars
    /\ [](CountersSet /\ Returned = ActiveTasks =>
             downloaded = Cardinality(Succeeded))

\* C15 witness: both workers of a run have returned, one after a download
\* and one after finding the file, and both increments are in the counter.
C15_Witness ==
    /\ CountersSet
    /\ Len(entries) = 2
    /\ Returned = ActiveTasks
    /\ Succeeded = ActiveTasks
    /\ downloaded = 2
    /\ outcome[1] = "success"
    /\ outcome[2] = "exists"


C17_ExactlyOnce ==
    /\ [](\A t \in Tasks : pc[t] # "none" <=> t \in 1..submitted)
    /\ [](submitted <= Len(entries))
    /\ [](cpc \in {"collect", "summary"} => submitted = Len(entries))
    /\ [](RunEnded => \A t \in ActiveTasks :
                          pc[t] = "done" /\ outcome[t] # "none")
    /\ [][\A t \in Tasks :
             /\ (pc'[t] = "queued" /\ pc[t] # "queued") =>
                    pc[t] = "none" /\ submitted = t - 1 /\ submitted' = t
             /\ (pc'[t] = "check" /\ pc[t] # "check") => pc[t] = "queued"
             /\ (requested[t] /\ runs' = runs) =>
                    requested'[t] /\ pc'[t] # "get"
             /\ (pc[t] = "done" /\ runs' = runs) =>
                    pc'[t] = "done" /\ outcome'[t] = outcome[t]]_vars

\* C17 witness: a run over two identical entries has ended with one
\* returned invocation for each, one of which downloaded the file.
C17_Witness ==
    /\ RunEnded
    /\ Len(entries) = 2
    /\ entries[1] = entries[2]
    /\ pc[1] = "done" /\ pc[2] = "done"
    /\ outcome[1] = "success"
    /\ outcome[2] = "exists"


\* ----------------------------------------------------------------- re-run
\* The current call is a second run over the playlist of the previous call
\* (N >= 1 entries), in which every entry ended as success or
\* already-exists.
Rerun ==
    /\ runs >= 2
    /\ entries # <<>>
    /\ m3u_content = prev_content
    /\ \A t \in ActiveTasks : prev_outcome[t] \in {"success", "exists"}

\* C18: idempotent re-run.  After a run in which every entry ended as
\* success or already-exists, a second run over the same playlist and
\* output directory issues no request, opens and changes no file, and ends
\* with completed = total = N.
C18_IdempotentRerun ==
    /\ [](Rerun => \A t \in ActiveTasks :
                       /\ ~requested[t]
                       /\ ~opened[t]
                       /\ outcome[t] \in {"none", "exists"})
    /\ [](Rerun /\ RunEnded =>
              /\ downloaded = Len(entries)
              /\ total = Len(entries)
              /\ Succeeded = ActiveTasks)
    /\ [][Rerun /\ Rerun' => files' = files]_vars

\* C18 witness: the second run over a two-entry playlist has ended with
\* 2/2 after a first run that downloaded one file and found the other.
C18_Witness ==
    /\ Rerun
    /\ RunEnded
    /\ Len(entries) = 2
    /\ prev_outcome[1] = "success"
    /\ prev_outcome[2] = "exists"
    /\ downloaded = 2
    /\ total = 2


\* ------------------------------------------------------- title extraction
\* The URL lines for which parse_m3u emits an entry.
EmittingLines(ls) ==
    {j \in 1..Len(ls) : IsUrlLine(ls[j]) /\ PendingTitles(ls, j) # {}}

\* The title line of the n-th entry: the last pending title line of the
\* n-th emitting URL line.
TitleLineOf(ls, n) ==
    LET E == EmittingLines(ls)
        j == CHOOSE e \in E : Cardinality({k \in E : k <= e}) = n
    IN  ls[Max(PendingTitles(ls, j))]

\* The text of a line after its comma at position c, without surrounding
\* whitespace.
AfterComma(l, c) == Strip(SubSeq(l, c + 1, Len(l)))

\* C19 as stated: the title of every entry is the text after the last comma
\* of its title line, trimmed.
C19_AsStated ==
    cpc = "parsed" =>
        LET ls == StrippedLines(m3u_content)
        IN  /\ Len(entries) = Cardinality(EmittingLines(ls))
            /\ \A n \in 1..Len(entries) :
                   entries[n][1] =
                       AfterComma(TitleLineOf(ls, n),
                                  Max(Commas(TitleLineOf(ls, n))))

\* C19 amended: the title of every entry is the text after the first comma
\* of its title line, trimmed; further commas belong to the title.
C19_TitleExtraction ==
    cpc = "parsed" =>
        LET ls == StrippedLines(m3u_content)
        IN  /\ Len(entries) = Cardinality(EmittingLines(ls))
            /\ \A n \in 1..Len(entries) :
                   entries[n][1] =
                       AfterComma(TitleLineOf(ls, n),
                                  Min(Commas(TitleLineOf(ls, n))))

\* C19 witness: the line '#EXTINF:3,C,D' followed by a URL line has given
\* an entry with the title 'C,D'.
C19_Witness ==
    /\ cpc = "parsed"
    /\ StrippedLines(m3u_content) =
           <<ExtInf \o <<"3", ",", "C", ",", "D">>, <<"u">> >>
    /\ entries = <<(<< <<"C", ",", "D">>, <<"u">> >>)>>


\* ------------------------------------------------------------ termination
\* The steps of the worker thread that runs task t (download_file).
Worker(t) ==
    \/ Start(t)
    \/ Check(t)
    \/ LockAndLoad(t)
    \/ StoreAndUnlock(t)
    \/ GetOk(t)
    \/ GetFails(t)
    \/ OpenOk(t)
    \/ OpenFails(t)
    \/ WriteDone(t)
    \/ WriteInterrupted(t)

\* The steps of the thread that called download_m3u, once it is called.
Coordinator ==
    \/ SetTotal
    \/ SetDownloaded
    \/ Submit
    \/ \E t \in ActiveTasks : Collect(t)
    \/ ExitPool
    \/ Return

\* A fair scheduler: a thread that can take a step eventually takes one.
\* A fetch that has been started ends (requests.get has a timeout of 30
\* seconds, line 70), with a response or with an error.  Nothing obliges
\* the caller to call download_m3u again.
Fairness ==
    /\ WF_vars(Coordinator)
    /\ \A t \in Tasks : WF_vars(Worker(t))

\* The steps of the program within the first LiveRuns calls of download_m3u.
NextFair == Next /\ runs' <= LiveRuns

SpecFair == Init /\ [][NextFair]_vars /\ Fairness

\* C20: run termination.  Under a fair scheduler every queued task is
\* eventually started, every worker that reaches "with self.lock" acquires
\* the lock, releases it and returns, the lock is never held for ever, the
\* coordinator of every run reaches the final summary, and the run returns.
C20_Termination ==
    /\ \A t \in Tasks : (pc[t] = "queued") ~> (pc[t] # "queued")
    /\ \A t \in Tasks :
           (pc[t] \in {"lock_exists", "lock_ok"}) ~> (lock = t)
    /\ \A t \in Tasks : (lock = t) ~> (pc[t] = "done" /\ lock # t)
    /\ \A t \in Tasks : (pc[t] \in RunningPcs) ~> (pc[t] = "done")
    /\ (cpc \notin {"idle", "summary"}) ~> (cpc = "summary")
    /\ (cpc # "idle") ~> (cpc = "idle")

\* C20 witness: a run over two entries has returned after both workers
\* went through the lock, one of them after a download.
C20_Witness ==
    /\ cpc = "idle"
    /\ runs > 0
    /\ Len(entries) = 2
    /\ Returned = ActiveTasks
    /\ collected = ActiveTasks
    /\ Succeeded = ActiveTasks
    /\ \E t \in ActiveTasks : outcome[t] = "success"
    /\ downloaded = 2

=============================================================================
